---- MODULE Spec2Model ----
(***************************************************************************)
(* Model of lora.c: SPI register access to an SX1278 LoRa transceiver      *)
(* (read_reg / write_reg), the diagnostic pass diagnose() and the          *)
(* sequencer in main().                                                    *)
(*                                                                         *)
(* The program state is main's position (pc) and its locals, the buffers   *)
(* of the last bcm2835_spi_transfernb call, and the exit status.  The      *)
(* environment is the library's initialisation outcome and the peripheral  *)
(* on the bus.  The peripheral is either the register store documented in  *)
(* the header comment of lora.c (mock = TRUE) or an arbitrary bus whose    *)
(* second inbound byte is unconstrained (mock = FALSE).                    *)
(*                                                                         *)
(* log is a history variable: one record per register access, holding the  *)
(* call (what the printf of read_reg / write_reg reports, without the      *)
(* value read) and the outbound byte pair handed to the bus primitive.     *)
(***************************************************************************)
EXTENDS Integers, Sequences, FiniteSets, TLC

VARIABLES
    pc,        \* position in main
    exitCode,  \* main's return value, meaningful once pc = "done"
    msg,       \* last status line main printed
    libInit,   \* outcome of bcm2835_init: "none" | "ok" | "failed"
    spiBegin,  \* outcome of bcm2835_spi_begin: "none" | "ok" | "failed"
    closed,    \* bcm2835_spi_end and bcm2835_close have run
    spi,       \* SPI parameters set by main ("unset" before)
    gpio,      \* pin 11: "unset" | "output" | "high"
    bootmode,  \* main's local bootmode
    chk,       \* value compared with LORA_STANDBY at the standby check
    di,        \* index of the next read of diagnose()
    diagBase,  \* history: Len(log) when diagnose() was entered
    i,         \* main's busy-wait counter
    tbuf,      \* transmit buffer of the last register access
    rbuf,      \* receive buffer of the last register access
    ret,       \* value returned by the last read_reg / write_reg
    log,       \* history of register accesses
    regs,      \* peripheral: one byte per 7-bit address
    before,    \* history: regs as they were before the last register access
    mock,      \* peripheral kind
    idle,      \* byte the peripheral shifts out while the address is clocked in
    probe,     \* register-level harness: the address under test
    datum,     \* register-level harness: the data byte under test
    ncalls     \* register-level harness: calls made so far

vars == <<pc, exitCode, msg, libInit, spiBegin, closed, spi, gpio, bootmode, chk, di,
          diagBase, i, tbuf, rbuf, ret, log, regs, before, mock, idle, probe,
          datum, ncalls>>

mainVars == <<pc, exitCode, msg, libInit, spiBegin, closed, spi, gpio, bootmode, chk,
              di, diagBase, i>>
envVars  == <<mock, idle, probe, datum>>
xferVars == <<tbuf, rbuf, ret, log, regs, before>>

---------------------------------------------------------------------------
\* Bounds of the model

\* DataSet holds MaxData + 1 sample bytes spread over 0..255
MaxData == 3
\* GarbageSet holds MaxGarbage + 1 values for the first inbound byte
MaxGarbage == 1
\* register-level harness: number of read_reg / write_reg calls per run
MaxCalls == 2

---------------------------------------------------------------------------
\* Device modes (lora.c 139-146)

FSK_SLEEP == 8          \* 0x08
FSK_CAD == 15           \* 0x0F
LORA_SLEEP == 136       \* 0x88
LORA_STANDBY == 137     \* 0x89
LORA_TX == 139          \* 0x8B
LORA_RX_CONT == 141     \* 0x8D
LORA_RX_SINGLE == 142   \* 0x8E
LORA_CAD == 143         \* 0x8F

\* Register addresses (lora.c 149-182)

REG_FIFO == 0
REG_OP_MODE == 1
REG_RF_FREQ_MSB_MSB == 6
REG_RF_FREQ_MSB == 7
REG_RF_FREQ_LSB == 8
REG_PA_CONFIG == 9
REG_PA_RAMP == 10
REG_OCP == 11
REG_LNA == 12
REG_FIFO_ADDR_PTR == 13
REG_FIFO_TX_BASE_ADDR == 14
REG_FIFO_RX_BASE_ADDR == 15
REG_FIFO_RX_CURRENT_ADDR == 16
REG_IRQ_FLAGS_MASK == 17
REG_IRQ_FLAGS == 18
REG_RX_NUM_BYTES == 19
REG_RX_PACKET_COUNT_MSB == 22
REG_RX_PACKET_COUNT_LSB == 23
REG_MODEM_STAT == 24
REG_PACKET_SNR == 25
REG_PACKET_RSSI == 26
REG_CURRENT_RSSI == 27
REG_HOP_CHANNEL == 28
REG_MODEM_CONFIG1 == 29
REG_MODEM_CONFIG2 == 30
REG_PREAMBLE_LEN_MSB == 32
REG_PREAMBLE_LEN_LSB == 33
REG_PAYLOAD_LEN == 34
REG_MAX_PAYLOAD_LEN == 35
REG_HOP_PERIOD == 36
REG_MODEM_CONFIG3 == 38
REG_DETECT_OPTIMIZE == 49
REG_DETECT_THRESH == 55
REG_SYNC_WORD == 57

\* lora.c 185
FIFO_TX_BASE_ADDR == 128   \* 0x80

\* the payload byte main writes to the FIFO (lora.c 266)
TX_PAYLOAD == 204          \* 0xCC

\* bound of main's busy-wait loop (lora.c 270)
SPIN_LIMIT == 5000000

\* the register map: every #defined register address
RegisterMap ==
    { REG_FIFO, REG_OP_MODE, REG_RF_FREQ_MSB_MSB, REG_RF_FREQ_MSB,
      REG_RF_FREQ_LSB, REG_PA_CONFIG, REG_PA_RAMP, REG_OCP, REG_LNA,
      REG_FIFO_ADDR_PTR, REG_FIFO_TX_BASE_ADDR, REG_FIFO_RX_BASE_ADDR,
      REG_FIFO_RX_CURRENT_ADDR, REG_IRQ_FLAGS_MASK, REG_IRQ_FLAGS,
      REG_RX_NUM_BYTES, REG_RX_PACKET_COUNT_MSB, REG_RX_PACKET_COUNT_LSB,
      REG_MODEM_STAT, REG_PACKET_SNR, REG_PACKET_RSSI, REG_CURRENT_RSSI,
      REG_HOP_CHANNEL, REG_MODEM_CONFIG1, REG_MODEM_CONFIG2,
      REG_PREAMBLE_LEN_MSB, REG_PREAMBLE_LEN_LSB, REG_PAYLOAD_LEN,
      REG_MAX_PAYLOAD_LEN, REG_HOP_PERIOD, REG_MODEM_CONFIG3,
      REG_DETECT_OPTIMIZE, REG_DETECT_THRESH, REG_SYNC_WORD }

---------------------------------------------------------------------------
\* Bytes and bit operations on uint8_t

Byte == 0..255
Addr == 0..127

RECURSIVE BitAnd(_, _)
BitAnd(x, y) ==
    IF x = 0 \/ y = 0 THEN 0
    ELSE (x % 2) * (y % 2) + 2 * BitAnd(x \div 2, y \div 2)

RECURSIVE BitOr(_, _)
BitOr(x, y) ==
    IF x = 0 THEN y
    ELSE IF y = 0 THEN x
    ELSE (IF (x % 2) + (y % 2) > 0 THEN 1 ELSE 0) + 2 * BitOr(x \div 2, y \div 2)

\* sample sets the inputs are drawn from
DataSet == { (k * 85) % 256 : k \in 0..MaxData }
GarbageSet == { (k * 255) % 256 : k \in 0..MaxGarbage }
\* bytes an arbitrary bus may deliver: the samples and the standby encoding
InboundSet == DataSet \cup { LORA_STANDBY }
\* mode register contents the peripheral may boot with
BootSet == InboundSet \cup { FSK_CAD, LORA_TX }

---------------------------------------------------------------------------
\* The peripheral on the bus (header comment of lora.c, 23-92)

\* the peripheral's view of the first outbound byte: MSB set flags a write,
\* the low seven bits are the register address
IsWrite(first) == BitAnd(first, 128) # 0
AddrOf(first) == BitAnd(first, 127)

\* the register store after the exchange: a write stores the second
\* outbound byte, a read stores nothing
MockStore(out) ==
    IF IsWrite(out[1])
    THEN [regs EXCEPT ![AddrOf(out[1])] = out[2]]
    ELSE regs

\* the second inbound byte: the addressed register's content as it was when
\* the address byte had been clocked in, i.e. before a write takes effect
MockAnswer(out) == regs[AddrOf(out[1])]

\* bcm2835_spi_transfernb(tbuf, rbuf, sizeof(tbuf)): the inbound pairs the
\* bus can deliver for the outbound pair out
spi_transfernb(out) ==
    IF mock
    THEN { <<idle, MockAnswer(out)>> }
    ELSE { <<idle, v>> : v \in InboundSet }

\* TxDone: in transmit mode the chip flags bit 3 of the IRQ register and
\* falls back to LoRa standby on its own (lora.c 97-103)
TxDone ==
    /\ mock
    /\ regs[REG_OP_MODE] = LORA_TX
    /\ regs' = [regs EXCEPT ![REG_OP_MODE] = LORA_STANDBY,
                            ![REG_IRQ_FLAGS] = BitOr(regs[REG_IRQ_FLAGS], 8)]
    /\ UNCHANGED <<tbuf, rbuf, ret, log, before>>
    /\ UNCHANGED mainVars
    /\ UNCHANGED <<envVars, ncalls>>

---------------------------------------------------------------------------
\* Register transport (lora.c 289-306)

\* mutant: the read sets the write flag as well
ReadTbuf_flagged(addr) == <<BitOr(addr, 128), 0>>

\* char tbuf[] = {addr, 0x00};
ReadTbuf(addr) == <<addr, 0>>

\* mutant: the write flag is forgotten
WriteTbuf_noflag(addr, data) == <<addr, data>>

\* char tbuf[] = {addr | 0x80, data};
WriteTbuf(addr, data) == <<BitOr(addr, 128), data>>

\* mutant: the first inbound byte is returned
Result_first(rb) == rb[1]

\* return rbuf[1];  (C index 1 is the second element)
Result(rb) == rb[2]

\* one call of the bus primitive with the outbound pair out, for the call c
Exchange(c, out) ==
    \E inb \in spi_transfernb(out) :
        /\ tbuf' = out
        /\ rbuf' = inb
        /\ before' = regs
        /\ regs' = IF mock THEN MockStore(out) ELSE regs
        /\ log' = Append(log, [op |-> c[1], addr |-> c[2], data |-> c[3],
                               out |-> out])
        /\ ret' = Result(inb)

read_reg(addr) == Exchange(<<"read", addr, 0>>, ReadTbuf(addr))

write_reg(addr, data) == Exchange(<<"write", addr, data>>, WriteTbuf(addr, data))

---------------------------------------------------------------------------
\* diagnose() (lora.c 311-345): the registers it reads, in order

\* mutant: the FIFO data register is read as well
DiagList_withFifo ==
    << REG_FIFO, REG_OP_MODE, REG_RF_FREQ_MSB_MSB, REG_RF_FREQ_MSB,
       REG_RF_FREQ_LSB, REG_PA_CONFIG, REG_PA_RAMP, REG_OCP, REG_LNA,
       REG_FIFO_ADDR_PTR, REG_FIFO_TX_BASE_ADDR, REG_FIFO_RX_BASE_ADDR,
       REG_FIFO_RX_CURRENT_ADDR, REG_IRQ_FLAGS_MASK, REG_IRQ_FLAGS,
       REG_RX_NUM_BYTES, REG_RX_PACKET_COUNT_MSB, REG_RX_PACKET_COUNT_LSB,
       REG_MODEM_STAT, REG_PACKET_SNR, REG_PACKET_RSSI, REG_CURRENT_RSSI,
       REG_HOP_CHANNEL, REG_MODEM_CONFIG1, REG_MODEM_CONFIG2,
       REG_PREAMBLE_LEN_MSB, REG_PREAMBLE_LEN_LSB, REG_PAYLOAD_LEN,
       REG_MAX_PAYLOAD_LEN, REG_HOP_PERIOD, REG_MODEM_CONFIG3,
       REG_DETECT_OPTIMIZE, REG_DETECT_THRESH, REG_SYNC_WORD >>

DiagList ==
    << REG_OP_MODE, REG_RF_FREQ_MSB_MSB, REG_RF_FREQ_MSB, REG_RF_FREQ_LSB,
       REG_PA_CONFIG, REG_PA_RAMP, REG_OCP, REG_LNA, REG_FIFO_ADDR_PTR,
       REG_FIFO_TX_BASE_ADDR, REG_FIFO_RX_BASE_ADDR,
       REG_FIFO_RX_CURRENT_ADDR, REG_IRQ_FLAGS_MASK, REG_IRQ_FLAGS,
       REG_RX_NUM_BYTES, REG_RX_PACKET_COUNT_MSB, REG_RX_PACKET_COUNT_LSB,
       REG_MODEM_STAT, REG_PACKET_SNR, REG_PACKET_RSSI, REG_CURRENT_RSSI,
       REG_HOP_CHANNEL, REG_MODEM_CONFIG1, REG_MODEM_CONFIG2,
       REG_PREAMBLE_LEN_MSB, REG_PREAMBLE_LEN_LSB, REG_PAYLOAD_LEN,
       REG_MAX_PAYLOAD_LEN, REG_HOP_PERIOD, REG_MODEM_CONFIG3,
       REG_DETECT_OPTIMIZE, REG_DETECT_THRESH, REG_SYNC_WORD >>

---------------------------------------------------------------------------
\* Initial states

\* the program before main's first statement, and the peripheral it faces
Init ==
    /\ pc = "init"
    /\ exitCode = 0
    /\ msg = "none"
    /\ libInit = "none"
    /\ spiBegin = "none"
    /\ closed = FALSE
    /\ spi = "unset"
    /\ gpio = "unset"
    /\ bootmode = 0
    /\ chk = 0
    /\ di = 1
    /\ diagBase = 0
    /\ i = 0
    /\ tbuf = <<0, 0>>
    /\ rbuf = <<0, 0>>
    /\ ret = 0
    /\ log = <<>>
    /\ mock \in BOOLEAN
    /\ idle \in GarbageSet
    /\ \E boot \in BootSet, fill \in DataSet :
          regs = [a \in Addr |->
                    IF ~mock THEN 0
                    ELSE IF a = REG_OP_MODE THEN boot ELSE fill]
    /\ before = regs
    /\ probe = 0
    /\ datum = 0
    /\ ncalls = 0

---------------------------------------------------------------------------
\* main (lora.c 197-282), one action per statement

\* if(!bcm2835_init()){ printf(...); return 1; }
LibInit ==
    /\ pc = "init"
    /\ \E ok \in BOOLEAN :
          IF ok
          THEN /\ libInit' = "ok"
               /\ pc' = "spi_begin"
               /\ UNCHANGED <<exitCode, msg>>
          ELSE /\ libInit' = "failed"
               /\ msg' = "bcm2835_init failed"
               /\ exitCode' = 1
               /\ pc' = "done"
    /\ UNCHANGED <<spiBegin, closed, spi, gpio, bootmode, chk, di, diagBase, i>>
    /\ UNCHANGED xferVars
    /\ UNCHANGED <<envVars, ncalls>>

\* mutant: the result of bcm2835_spi_begin is not checked
SpiBegin_unchecked ==
    /\ pc = "spi_begin"
    /\ \E ok \in BOOLEAN : spiBegin' = IF ok THEN "ok" ELSE "failed"
    /\ pc' = "config"
    /\ UNCHANGED <<exitCode, msg, libInit, closed, spi, gpio, bootmode, chk, di,
                   diagBase, i>>
    /\ UNCHANGED xferVars
    /\ UNCHANGED <<envVars, ncalls>>

\* if(!bcm2835_spi_begin()){ printf(...); return 1; }
SpiBegin ==
    /\ pc = "spi_begin"
    /\ \E ok \in BOOLEAN :
          IF ok
          THEN /\ spiBegin' = "ok"
               /\ pc' = "config"
               /\ UNCHANGED <<exitCode, msg>>
          ELSE /\ spiBegin' = "failed"
               /\ msg' = "bcm2835_spi_begin failed"
               /\ exitCode' = 1
               /\ pc' = "done"
    /\ UNCHANGED <<libInit, closed, spi, gpio, bootmode, chk, di, diagBase,
                   i>>
    /\ UNCHANGED xferVars
    /\ UNCHANGED <<envVars, ncalls>>

\* the five bcm2835_spi_set... calls
SpiConfigure ==
    /\ pc = "config"
    /\ spi' = [bitOrder |-> "MSBFIRST", dataMode |-> 0, divider |-> 65536,
               chipSelect |-> 0, csPolarity |-> "LOW"]
    /\ pc' = "gpio"
    /\ UNCHANGED <<exitCode, msg, libInit, spiBegin, closed, gpio, bootmode, chk, di,
                   diagBase, i>>
    /\ UNCHANGED xferVars
    /\ UNCHANGED <<envVars, ncalls>>

\* bcm2835_gpio_fsel(pin 11, output); bcm2835_gpio_set(pin 11);
GpioSetup ==
    /\ pc = "gpio"
    /\ gpio' = "high"
    /\ pc' = "boot_read"
    /\ UNCHANGED <<exitCode, msg, libInit, spiBegin, closed, spi, bootmode, chk, di,
                   diagBase, i>>
    /\ UNCHANGED xferVars
    /\ UNCHANGED <<envVars, ncalls>>

\* uint8_t bootmode = read_reg(REG_OP_MODE);
BootRead ==
    /\ pc = "boot_read"
    /\ read_reg(REG_OP_MODE)
    /\ bootmode' = ret'
    /\ pc' = "guard"
    /\ UNCHANGED <<exitCode, msg, libInit, spiBegin, closed, spi, gpio, chk, di,
                   diagBase, i>>
    /\ UNCHANGED <<envVars, ncalls>>

\* mutant: the guard is inverted
NeedsFskSleep_inverted(b) == BitAnd(b, 128) # 0

\* (bootmode & 0x80) == 0X00
NeedsFskSleep(b) == BitAnd(b, 128) = 0

\* if((bootmode & 0x80) == 0X00 ){ ... }
Guard ==
    /\ pc = "guard"
    /\ pc' = IF NeedsFskSleep(bootmode) THEN "fsk_sleep" ELSE "lora_sleep"
    /\ UNCHANGED <<exitCode, msg, libInit, spiBegin, closed, spi, gpio, bootmode, chk,
                   di, diagBase, i>>
    /\ UNCHANGED xferVars
    /\ UNCHANGED <<envVars, ncalls>>

\* a write_reg statement of main at position at, followed by position next
WriteStmt(at, addr, data, next) ==
    /\ pc = at
    /\ write_reg(addr, data)
    /\ pc' = next
    /\ UNCHANGED <<exitCode, msg, libInit, spiBegin, closed, spi, gpio, bootmode, chk,
                   di, diagBase, i>>
    /\ UNCHANGED <<envVars, ncalls>>

\* a read_reg statement of main whose value is discarded
ReadStmt(at, addr, next) ==
    /\ pc = at
    /\ read_reg(addr)
    /\ pc' = next
    /\ UNCHANGED <<exitCode, msg, libInit, spiBegin, closed, spi, gpio, bootmode, chk,
                   di, diagBase, i>>
    /\ UNCHANGED <<envVars, ncalls>>

\* write_reg(REG_OP_MODE, FSK_SLEEP);
FskSleep == WriteStmt("fsk_sleep", REG_OP_MODE, FSK_SLEEP, "lora_sleep")

\* write_reg(REG_OP_MODE, LORA_SLEEP);
LoraSleep == WriteStmt("lora_sleep", REG_OP_MODE, LORA_SLEEP, "lora_standby")

\* write_reg(REG_OP_MODE, LORA_STANDBY);
LoraStandby == WriteStmt("lora_standby", REG_OP_MODE, LORA_STANDBY, "check")

\* mutant: the read-back is compared with the wrong mode
StandbyFailed_sleep(v) == v # LORA_SLEEP

\* read_reg(REG_OP_MODE) != LORA_STANDBY
StandbyFailed(v) == v # LORA_STANDBY

\* if(read_reg(REG_OP_MODE) != LORA_STANDBY){ printf; return 1; }else{ printf; }
StandbyCheck ==
    /\ pc = "check"
    /\ read_reg(REG_OP_MODE)
    /\ chk' = ret'
    /\ IF StandbyFailed(ret')
       THEN /\ msg' = "There was a problem entering LORA_STANDBY."
            /\ exitCode' = 1
            /\ pc' = "done"
       ELSE /\ msg' = "Device has entered LORA_STANDBY."
            /\ pc' = "diag"
            /\ UNCHANGED exitCode
    /\ UNCHANGED <<libInit, spiBegin, closed, spi, gpio, bootmode, di, diagBase, i>>
    /\ UNCHANGED <<envVars, ncalls>>

\* diagnose(); the call itself
DiagEnter ==
    /\ pc = "diag"
    /\ di' = 1
    /\ diagBase' = Len(log)
    /\ pc' = "diagnose"
    /\ UNCHANGED <<exitCode, msg, libInit, spiBegin, closed, spi, gpio, bootmode, chk, i>>
    /\ UNCHANGED xferVars
    /\ UNCHANGED <<envVars, ncalls>>

\* one read_reg statement of diagnose()
Diagnose ==
    /\ pc = "diagnose"
    /\ di <= Len(DiagList)
    /\ read_reg(DiagList[di])
    /\ di' = di + 1
    /\ UNCHANGED <<pc, exitCode, msg, libInit, spiBegin, closed, spi, gpio, bootmode,
                   chk, diagBase, i>>
    /\ UNCHANGED <<envVars, ncalls>>

\* diagnose() returns
DiagReturn ==
    /\ pc = "diagnose"
    /\ di > Len(DiagList)
    /\ pc' = "tx_ptr_read"
    /\ UNCHANGED <<exitCode, msg, libInit, spiBegin, closed, spi, gpio, bootmode, chk,
                   di, diagBase, i>>
    /\ UNCHANGED xferVars
    /\ UNCHANGED <<envVars, ncalls>>

\* read_reg(REG_FIFO_ADDR_PTR);
TxPtrRead == ReadStmt("tx_ptr_read", REG_FIFO_ADDR_PTR, "tx_ptr_write")

\* mutant: the FIFO pointer is set to the receive base 0x00
TxPtrWrite_rxbase ==
    WriteStmt("tx_ptr_write", REG_FIFO_ADDR_PTR, 0, "tx_fifo")

\* write_reg(REG_FIFO_ADDR_PTR, FIFO_TX_BASE_ADDR);
TxPtrWrite ==
    WriteStmt("tx_ptr_write", REG_FIFO_ADDR_PTR, FIFO_TX_BASE_ADDR, "tx_fifo")

\* write_reg(REG_FIFO, 0xCC);
TxFifo == WriteStmt("tx_fifo", REG_FIFO, TX_PAYLOAD, "tx_mode")

\* write_reg(REG_OP_MODE, LORA_TX);
TxMode == WriteStmt("tx_mode", REG_OP_MODE, LORA_TX, "spin_init")

\* int i = 0;
SpinInit ==
    /\ pc = "spin_init"
    /\ i' = 0
    /\ pc' = "spin"
    /\ UNCHANGED <<exitCode, msg, libInit, spiBegin, closed, spi, gpio, bootmode, chk,
                   di, diagBase>>
    /\ UNCHANGED xferVars
    /\ UNCHANGED <<envVars, ncalls>>

\* mutant: the loop test is inverted, so the body never runs
SpinCond_inverted(n) == n > SPIN_LIMIT

\* i<5000000
SpinCond(n) == n < SPIN_LIMIT

\* the number of times the body i++ runs when the loop is entered with
\* i = n: the test holds for n, n + 1, ... up to the bound
SpinIterations(n) == IF SpinCond(n) THEN SPIN_LIMIT - n ELSE 0

\* the value of i when the loop is left: each iteration adds 1
SpinResult(n) == n + SpinIterations(n)

\* while(i<5000000){ i++; }  the whole loop as one step
Wait ==
    /\ pc = "spin"
    /\ i' = SpinResult(i)
    /\ pc' = "irq_read"
    /\ UNCHANGED <<exitCode, msg, libInit, spiBegin, closed, spi, gpio, bootmode, chk,
                   di, diagBase>>
    /\ UNCHANGED xferVars
    /\ UNCHANGED <<envVars, ncalls>>

\* read_reg(REG_IRQ_FLAGS);
IrqRead == ReadStmt("irq_read", REG_IRQ_FLAGS, "mode_read")

\* read_reg(REG_OP_MODE);
ModeRead == ReadStmt("mode_read", REG_OP_MODE, "end")

\* bcm2835_spi_end(); bcm2835_close(); return 0;
Finish ==
    /\ pc = "end"
    /\ closed' = TRUE
    /\ exitCode' = 0
    /\ pc' = "done"
    /\ UNCHANGED <<msg, libInit, spiBegin, spi, gpio, bootmode, chk, di, diagBase, i>>
    /\ UNCHANGED xferVars
    /\ UNCHANGED <<envVars, ncalls>>

\* the statements of main other than the busy-wait loop
Sequencer ==
    \/ LibInit
    \/ SpiBegin
    \/ SpiConfigure
    \/ GpioSetup
    \/ BootRead
    \/ Guard
    \/ FskSleep
    \/ LoraSleep
    \/ LoraStandby
    \/ StandbyCheck
    \/ DiagEnter
    \/ Diagnose
    \/ DiagReturn
    \/ TxPtrRead
    \/ TxPtrWrite
    \/ TxFifo
    \/ TxMode
    \/ SpinInit
    \/ IrqRead
    \/ ModeRead
    \/ Finish

\* main against its peripheral, the busy-wait loop taken as one step
Next == Sequencer \/ Wait \/ TxDone

Spec == Init /\ [][Next]_vars

---------------------------------------------------------------------------
\* Register-level harness: the address under test, the data byte and the
\* prior content of the registers are drawn initially; up to MaxCalls calls
\* of read_reg / write_reg on that address follow, in any order

CallRead ==
    /\ ncalls < MaxCalls
    /\ read_reg(probe)
    /\ ncalls' = ncalls + 1
    /\ UNCHANGED mainVars
    /\ UNCHANGED envVars

CallWrite ==
    /\ ncalls < MaxCalls
    /\ write_reg(probe, datum)
    /\ ncalls' = ncalls + 1
    /\ UNCHANGED mainVars
    /\ UNCHANGED envVars

InitReg ==
    /\ pc = "init"
    /\ exitCode = 0
    /\ msg = "none"
    /\ libInit = "none"
    /\ spiBegin = "none"
    /\ closed = FALSE
    /\ spi = "unset"
    /\ gpio = "unset"
    /\ bootmode = 0
    /\ chk = 0
    /\ di = 1
    /\ diagBase = 0
    /\ i = 0
    /\ tbuf = <<0, 0>>
    /\ rbuf = <<0, 0>>
    /\ ret = 0
    /\ log = <<>>
    /\ mock \in BOOLEAN
    /\ idle \in GarbageSet
    /\ probe \in Addr
    /\ datum \in DataSet
    /\ \E v \in DataSet :
          regs = [a \in Addr |-> IF mock THEN v ELSE 0]
    /\ before = regs
    /\ ncalls = 0

NextReg == CallRead \/ CallWrite

SpecReg == InitReg /\ [][NextReg]_vars

---------------------------------------------------------------------------
\* Sanity: the shape of the state

TypeOK ==
    /\ exitCode \in {0, 1}
    /\ bootmode \in Byte /\ chk \in Byte /\ ret \in Byte
    /\ tbuf \in Byte \X Byte /\ rbuf \in Byte \X Byte
    /\ i \in 0..SPIN_LIMIT
    /\ di \in 1..(Len(DiagList) + 1)
    /\ regs \in [Addr -> Byte]
    /\ probe \in Addr /\ datum \in Byte /\ idle \in Byte

---------------------------------------------------------------------------
\* Helpers for the properties

Last == log[Len(log)]

\* the outbound pairs put on the bus so far, in order
Outs == [k \in 1..Len(log) |-> log[k].out]

\* the outbound pair that reads register a / writes d to register a, written
\* with arithmetic on the 7-bit address rather than with the code's bit
\* operations
ReadPair(a) == <<a, 0>>
WritePair(a, d) == <<a + 128, d>>

IsPrefix(s, t) == Len(s) <= Len(t) /\ \A k \in 1..Len(s) : s[k] = t[k]

---------------------------------------------------------------------------
\* C1: for every address a in 0..0x7F and every inbound pair (r0, r1),
\* read_reg(a) makes exactly one exchange of exactly 2 bytes, sends [a, 0x00]
\* and returns r1, whatever r0 is.
C1_ReadExchange ==
    /\ Len(log) = ncalls
    /\ (Len(log) > 0 /\ Last.op = "read") =>
          /\ Last.addr = probe
          /\ tbuf = <<probe, 0>>
          /\ Last.out = tbuf
          /\ Len(tbuf) = 2 /\ Len(rbuf) = 2
          /\ ret = rbuf[2]

\* a read of the highest address whose two inbound bytes differ
C1_Witness ==
    /\ Len(log) = 1 /\ Last.op = "read"
    /\ probe = 127
    /\ rbuf[1] = 255 /\ rbuf[2] = 85 /\ ret = 85

\* C2: for every address a in 0..0x7F, every data byte d and every inbound
\* pair (r0, r1), write_reg(a, d) makes exactly one exchange of exactly 2
\* bytes, sends [a | 0x80, d] (bit 7 set, low 7 bits equal to a) and returns
\* r1, which against the register store is the content before this write.
C2_WriteExchange ==
    /\ Len(log) = ncalls
    /\ (Len(log) > 0 /\ Last.op = "write") =>
          /\ Last.addr = probe /\ Last.data = datum
          /\ tbuf = <<probe + 128, datum>>
          /\ tbuf[1] \div 128 = 1 /\ tbuf[1] % 128 = probe
          /\ Last.out = tbuf
          /\ Len(tbuf) = 2 /\ Len(rbuf) = 2
          /\ ret = rbuf[2]
          /\ mock => ret = before[probe]

\* a write whose returned byte is the prior content and not the byte written
C2_Witness ==
    /\ mock
    /\ Len(log) = 1 /\ Last.op = "write"
    /\ probe = 127 /\ datum = 170
    /\ before[probe] = 85 /\ ret = 85 /\ regs[probe] = 170
    /\ rbuf[1] = 255

\* C3: against the register store, write_reg(a, d) returns the prior content
\* v, an immediately following read_reg(a) returns d, and no other register
\* changes in either call.
C3_RoundTrip ==
    mock =>
      /\ (Len(log) > 0 /\ Last.op = "write") =>
            /\ ret = before[probe]
            /\ regs[probe] = datum
            /\ \A x \in Addr \ {probe} : regs[x] = before[x]
      /\ (Len(log) > 0 /\ Last.op = "read") =>
            /\ regs = before
      /\ (Len(log) > 1 /\ log[Len(log) - 1].op = "write" /\ Last.op = "read") =>
            /\ ret = datum

\* a write of d over v # d followed by the read that returns d
C3_Witness ==
    /\ mock
    /\ Len(log) = 2 /\ log[1].op = "write" /\ log[2].op = "read"
    /\ probe = 1 /\ datum = 170
    /\ ret = 170
    /\ regs[0] = 85 /\ regs[127] = 85

---------------------------------------------------------------------------
\* Properties of main

\* main has passed both initialisation checks
InitPassed == libInit = "ok" /\ spiBegin = "ok"

\* number of register accesses up to and including the standby check
CheckLen == IF bootmode < 128 THEN 5 ELSE 4

\* number of register accesses of a run that returns 0
FullLen == CheckLen + Len(DiagList) + 6

\* a step of the program itself
ProgramStep == Sequencer \/ Wait

\* C4: once initialisation has succeeded, main returns 1 exactly when the
\* read of register 0x01 that follows the LoRa-standby write returns a value
\* other than 0x89; it then makes no further exchange; when the value is 0x89
\* main runs to the end and returns 0.
C4_StandbyCheck ==
    /\ (pc = "diag") =>
          /\ chk = rbuf[2] /\ chk = LORA_STANDBY
          /\ Len(log) = CheckLen
          /\ Last.out = ReadPair(REG_OP_MODE)
          /\ log[Len(log) - 1].out = WritePair(REG_OP_MODE, LORA_STANDBY)
    /\ (pc = "done" /\ InitPassed /\ exitCode = 1) =>
          /\ chk = rbuf[2] /\ chk # LORA_STANDBY
          /\ Len(log) = CheckLen
          /\ Last.out = ReadPair(REG_OP_MODE)
          /\ log[Len(log) - 1].out = WritePair(REG_OP_MODE, LORA_STANDBY)
          /\ ~closed
    /\ (pc = "done" /\ InitPassed /\ exitCode = 0) =>
          /\ chk = LORA_STANDBY
          /\ Len(log) = FullLen
          /\ closed
    /\ (Len(log) > CheckLen) => chk = LORA_STANDBY
    /\ (InitPassed /\ pc # "done") => ENABLED ProgramStep

\* the standby check has failed on a bus that answered 0xAA
C4_Witness ==
    /\ pc = "done" /\ InitPassed /\ exitCode = 1
    /\ chk = 170
    /\ Len(log) = 4

\* C5: if bit 7 of the byte returned by the first mode read is clear, main
\* writes 0x08 to register 0x01 before any LoRa-mode write; if it is set, no
\* write of 0x08 is ever made; either way the write of 0x88 is directly
\* followed by the write of 0x89, and the first exchange is the mode read.
C5_ModeGuard ==
    /\ (pc = "guard") => (bootmode = rbuf[2] /\ Len(log) = 1)
    /\ (Len(log) >= 1) => Outs[1] = ReadPair(REG_OP_MODE)
    /\ (Len(log) >= 1 /\ bootmode < 128) =>
          /\ (Len(log) >= 2) => Outs[2] = WritePair(REG_OP_MODE, FSK_SLEEP)
          /\ (Len(log) >= 3) => Outs[3] = WritePair(REG_OP_MODE, LORA_SLEEP)
          /\ (Len(log) >= 4) => Outs[4] = WritePair(REG_OP_MODE, LORA_STANDBY)
    /\ (Len(log) >= 1 /\ bootmode >= 128) =>
          /\ \A k \in 1..Len(log) : Outs[k] # WritePair(REG_OP_MODE, FSK_SLEEP)
          /\ (Len(log) >= 2) => Outs[2] = WritePair(REG_OP_MODE, LORA_SLEEP)
          /\ (Len(log) >= 3) => Outs[3] = WritePair(REG_OP_MODE, LORA_STANDBY)
    /\ (pc = "check") => Len(log) = CheckLen - 1

\* a device booting in a legacy mode has been taken through FSK sleep
C5_Witness ==
    /\ pc = "check"
    /\ bootmode = 85
    /\ Outs = << ReadPair(REG_OP_MODE), WritePair(REG_OP_MODE, FSK_SLEEP),
                 WritePair(REG_OP_MODE, LORA_SLEEP),
                 WritePair(REG_OP_MODE, LORA_STANDBY) >>

\* the register accesses diagnose() has made so far
DiagSeg == SubSeq(log, diagBase + 1, diagBase + di - 1)

\* diagnose() has been entered
InDiag ==
    \/ pc \in {"diagnose", "tx_ptr_read", "tx_ptr_write", "tx_fifo", "tx_mode",
               "spin_init", "spin", "irq_read", "mode_read", "end"}
    \/ (pc = "done" /\ exitCode = 0)

\* C6: diagnose() makes read exchanges only, never a write and never an
\* exchange addressed to 0x00: it reads every address of the register map
\* but 0x00 exactly once, in one fixed order (ascending by address) whatever
\* values come back.
C6_DiagnosticPass ==
    InDiag =>
      /\ diagBase = CheckLen
      /\ (pc = "diagnose") => Len(log) = diagBase + di - 1
      /\ \A k \in 1..Len(DiagSeg) :
            /\ DiagSeg[k].op = "read"
            /\ DiagSeg[k].out[1] < 128
            /\ DiagSeg[k].out[1] # REG_FIFO
            /\ DiagSeg[k].out[2] = 0
            /\ DiagSeg[k].out[1] \in RegisterMap
            /\ \A j \in 1..Len(DiagSeg) : j # k => DiagSeg[j].out # DiagSeg[k].out
            /\ (k > 1) => DiagSeg[k - 1].out[1] < DiagSeg[k].out[1]
      /\ (pc # "diagnose") =>
            /\ Len(DiagSeg) = Cardinality(RegisterMap) - 1
            /\ { DiagSeg[k].out[1] : k \in 1..Len(DiagSeg) } = RegisterMap \ {REG_FIFO}

\* diagnose() has returned on a bus whose last answer was not zero
C6_Witness ==
    /\ pc = "tx_ptr_read"
    /\ di = 34
    /\ ret = 255
    /\ Len(log) = diagBase + 33

\* the exchanges of the documented end-to-end run
ExpectedRun ==
    << ReadPair(REG_OP_MODE), WritePair(REG_OP_MODE, 8),
       WritePair(REG_OP_MODE, 136), WritePair(REG_OP_MODE, 137),
       ReadPair(REG_OP_MODE) >>
    \o [k \in 1..Len(DiagList) |-> ReadPair(DiagList[k])]
    \o << ReadPair(13), WritePair(13, 128), WritePair(0, 204),
          WritePair(REG_OP_MODE, 139), ReadPair(18), ReadPair(REG_OP_MODE) >>

\* C7: against the register store booting with mode register 0x0F the run
\* makes exactly the exchanges of ExpectedRun in that order, the fifth
\* returning 0x89, waits before the last two, and returns 0 whatever the
\* last two reads return.
C7_EndToEnd ==
    (mock /\ Len(log) >= 1 /\ bootmode = FSK_CAD) =>
      /\ IsPrefix(Outs, ExpectedRun)
      /\ (Len(log) = 5) => ret = LORA_STANDBY
      /\ (Len(log) >= 5) => chk = LORA_STANDBY
      /\ (Len(log) > Len(ExpectedRun) - 2) => i = SPIN_LIMIT
      /\ (pc = "done") => (Outs = ExpectedRun /\ exitCode = 0)
      /\ (pc # "done") => ENABLED ProgramStep

\* the run has ended after the chip fell back to standby and flagged TxDone
C7_Witness ==
    /\ mock /\ bootmode = FSK_CAD
    /\ pc = "done" /\ exitCode = 0
    /\ Outs = ExpectedRun
    /\ ret = LORA_STANDBY
    /\ regs[REG_IRQ_FLAGS] = 8

\* the register access that triggers transmission
IsTxTrigger(e) == e.op = "write" /\ e.out = WritePair(REG_OP_MODE, LORA_TX)

\* C8: the final reads of registers 0x12 and 0x01 are made only after the
\* write of 0x8B to register 0x01 and after the busy-wait counter has run
\* from 0 to 5000000; no exchange is made between the trigger and the end of
\* the wait, and the wait ends.
C8_WaitBeforeReadBack ==
    /\ SPIN_LIMIT = 5000000
    /\ (pc = "spin_init") => IsTxTrigger(Last)
    /\ (pc = "spin") => (i = 0 /\ IsTxTrigger(Last) /\ ENABLED Wait)
    /\ (pc = "irq_read") => (i = SPIN_LIMIT /\ IsTxTrigger(Last))
    /\ (pc = "mode_read") =>
          /\ i = SPIN_LIMIT
          /\ Last.out = ReadPair(REG_IRQ_FLAGS)
          /\ IsTxTrigger(log[Len(log) - 1])
    /\ (pc = "end" \/ (pc = "done" /\ exitCode = 0)) =>
          /\ i = SPIN_LIMIT
          /\ Last.out = ReadPair(REG_OP_MODE)
          /\ log[Len(log) - 1].out = ReadPair(REG_IRQ_FLAGS)
          /\ IsTxTrigger(log[Len(log) - 2])
    /\ \A k \in 1..Len(log) :
          IsTxTrigger(log[k]) => (k = FullLen - 2 /\ Len(log) <= FullLen)

\* the interrupt flags have been read after the full wait
C8_Witness ==
    /\ pc = "mode_read"
    /\ i = 5000000
    /\ Last.out = ReadPair(REG_IRQ_FLAGS)
    /\ IsTxTrigger(log[Len(log) - 1])

\* C10: when bcm2835_init or bcm2835_spi_begin fails main returns 1 there
\* and then, without a second attempt, any GPIO action or any register
\* exchange; 0 is returned only after both succeeded and the standby check
\* passed.
C10_InitFailure ==
    /\ (libInit = "failed") =>
          /\ pc = "done" /\ exitCode = 1
          /\ spiBegin = "none" /\ spi = "unset" /\ gpio = "unset"
          /\ log = <<>>
          /\ ~ENABLED ProgramStep
    /\ (spiBegin = "failed") =>
          /\ pc = "done" /\ exitCode = 1
          /\ libInit = "ok" /\ spi = "unset" /\ gpio = "unset"
          /\ log = <<>>
          /\ ~ENABLED ProgramStep
    /\ (pc = "done" /\ exitCode = 0) =>
          /\ InitPassed
          /\ chk = LORA_STANDBY /\ Len(log) = FullLen
    /\ (pc = "done") => exitCode \in {0, 1}
    /\ (gpio # "unset" \/ log # <<>>) => InitPassed

\* bcm2835_spi_begin has failed after bcm2835_init succeeded
C10_Witness ==
    /\ spiBegin = "failed" /\ libInit = "ok"
    /\ pc = "done" /\ exitCode = 1
    /\ msg = "bcm2835_spi_begin failed"

====
